---- MODULE Spec2Model ----
(***************************************************************************)
(* Model of src/nl2sql360/evaluator/bird_eval/bird_ves.py: the VES         *)
(* evaluator of NL2SQL360.  A list of (predicted, ground truth) query      *)
(* pairs is fanned out over a multiprocessing.Pool; every task runs        *)
(* execute_model, which guards iterated_execute_sql with func_timeout;     *)
(* results come back through result_callback into the module-level list    *)
(* exec_result; __main__ sorts them and compute_ves_by_diff scores them.   *)
(*                                                                         *)
(* Numbers.  Durations are whole time units.  A Python float is modelled   *)
(* in fixed point: the float x is the integer floor(x * Scale).            *)
(***************************************************************************)
EXTENDS Integers, Sequences, FiniteSets, TLC

(* ------------------------------ bounds -------------------------------- *)
NumTasks == 3
MaxCpus == 2
MaxIter == 2
MaxDur == 2
MaxTimeOut == 7
MaxInterrupts == 1
AggTasks == 4
FilterLen == 5
Scale == 100

(* ------------------------------ helpers ------------------------------- *)
Range(s) == {s[i] : i \in 1..Len(s)}

RECURSIVE SumSeq(_)
SumSeq(s) == IF s = <<>> THEN 0 ELSE Head(s) + SumSeq(Tail(s))

\* the elements s[i] with keep[i], in order
SelectIdx(s, keep) ==
    LET F[i \in 0..Len(s)] ==
            IF i = 0 THEN <<>>
            ELSE IF keep[i] THEN Append(F[i - 1], s[i]) ELSE F[i - 1]
    IN F[Len(s)]

\* floor of the square root of n, by bisection on lo*lo <= n < hi*hi
RECURSIVE Bisect(_, _, _)
Bisect(n, lo, hi) ==
    IF hi - lo <= 1 THEN lo
    ELSE LET mid == (lo + hi) \div 2
         IN IF mid * mid <= n THEN Bisect(n, mid, hi) ELSE Bisect(n, lo, mid)

\* 46340 is the largest root whose square fits the checker's integers
ISqrt(n) == Bisect(n, 0, IF n < 46340 THEN n + 1 ELSE 46340)

\* a / b on fixed-point floats
FDiv(a, b) == (a * Scale) \div b

\* math.sqrt(x) * 100 on a fixed-point float x; the result is fixed point too
SqrtTimes100(x) == ISqrt(x * Scale * 100) * 10

(* ------------------------- the database (input) ----------------------- *)
(* What the database does with one SQL string: the rows it returns, whether*)
(* executing it raises, whether it hangs, and how long its j-th execution  *)
(* takes (times[j], j = 1 for the full-row run, j = it + 1 for the timed    *)
(* run of iteration it).                                                   *)
RowLists == {<<>>, <<1>>, <<1, 2>>, <<2, 1>>, <<1, 1>>}
Durations == 1..MaxDur
\* exec_acc: None is <<>>, a supplied flag v is <<v>>
NoFlag == <<>>
Flag(v) == <<v>>

(* ------------------------------ execute_sql --------------------------- *)
\* execute_sql(sql, db_path, sql_dialect, return_time): the j-th execution
\* of sql.  status "ok": val is the rows, or the elapsed time when
\* return_time; "raise": cursor.execute raised; "hang": it never returns.
execute_sql(sql, j, return_time) ==
    IF sql.hangs THEN [status |-> "hang", val |-> <<>>, dur |-> 0]
    ELSE IF sql.error THEN [status |-> "raise", val |-> <<>>, dur |-> sql.times[j]]
    ELSE [status |-> "ok",
          val |-> IF return_time THEN sql.times[j] * Scale ELSE sql.rows,
          dur |-> sql.times[j]]

(* ------------------------------ clean_abnormal ------------------------ *)
\* clean_abnormal keeping the values within one standard deviation
clean_abnormal_one_sigma(input) ==
    LET n == Len(input)
        S == SumSeq(input)
        V == SumSeq([i \in 1..n |->
                SumSeq([j \in 1..n |->
                    IF i < j THEN (input[i] - input[j]) * (input[i] - input[j])
                    ELSE 0])])
        D(i) == IF n * input[i] >= S THEN n * input[i] - S ELSE S - n * input[i]
    IN SelectIdx(input, [i \in 1..n |-> D(i) * D(i) < V])

\* keep x iff mean - 3*std < x < mean + 3*std, mean and population std of
\* the whole list.  With n = len, S = sum, Q = sum of squares:
\* |x - S/n| < 3*sqrt(Q/n - (S/n)^2)  iff  (n*x - S)^2 < 9*(n*Q - S^2).
\* To stay within the integers of the checker, V = n*Q - S^2 is computed as
\* the sum of (x_i - x_j)^2 over the pairs i < j, and D^2 < 9*V, for
\* D = |n*x - S| = 3*q + r, as floor(D^2 / 9) < V.
clean_abnormal(input) ==
    LET n == Len(input)
        S == SumSeq(input)
        V == SumSeq([i \in 1..n |->
                SumSeq([j \in 1..n |->
                    IF i < j THEN (input[i] - input[j]) * (input[i] - input[j])
                    ELSE 0])])
        D(i) == IF n * input[i] >= S THEN n * input[i] - S ELSE S - n * input[i]
        inside == [i \in 1..n |->
                    LET q == D(i) \div 3
                        r == D(i) % 3
                    IN q * q + (6 * q * r + r * r) \div 9 < V]
    IN SelectIdx(input, inside)

(* --------------------------- iterated_execute_sql --------------------- *)
\* The outcome of one call: exc (an exception left the function), hang (it
\* never returns), elapsed (wall-clock units used until it returned or
\* raised), the ratio returned, and the executions it made.
EvalOut(exc, hang, elapsed, ratio, full, timed) ==
    [exc |-> exc, hang |-> hang, elapsed |-> elapsed, time_ratio |-> ratio,
     full_execs |-> full, timed_execs |-> timed]

\* the gate of the timed loop with the set comparison left out
Correct_flag_only(exec_acc, predicted_res, ground_truth_res) ==
    exec_acc = NoFlag \/ exec_acc[1] = 1

\* the gate comparing the rows also when a flag is supplied
Correct_rows_always(exec_acc, predicted_res, ground_truth_res) ==
    Range(predicted_res) = Range(ground_truth_res)

\* (exec_acc is None and set(predicted_res) == set(ground_truth_res))
\*     or (exec_acc is not None and exec_acc == 1)
Correct(exec_acc, predicted_res, ground_truth_res) ==
    \/ exec_acc = NoFlag /\ Range(predicted_res) = Range(ground_truth_res)
    \/ exec_acc # NoFlag /\ exec_acc[1] = 1

\* iterated_execute_sql that, given a flag, does not fetch the rows of the
\* two queries first
iterated_execute_sql_flag_skips_rows(predicted_sql, ground_truth, iterate_num, exec_acc) ==
    LET predicted == execute_sql(predicted_sql, 1, FALSE)
        truth == execute_sql(ground_truth, 1, FALSE)
        predicted_time(it) == execute_sql(predicted_sql, it + 1, TRUE)
        ground_truth_time(it) == execute_sql(ground_truth, it + 1, TRUE)
        diff_list == [it \in 1..iterate_num |->
                        FDiv(ground_truth_time(it).val, predicted_time(it).val)]
        processed_diff_list == clean_abnormal(diff_list)
        loop_dur == SumSeq([it \in 1..iterate_num |->
                        predicted_time(it).dur + ground_truth_time(it).dur])
        first_two == IF exec_acc = NoFlag THEN predicted.dur + truth.dur ELSE 0
        full == IF exec_acc = NoFlag THEN 2 ELSE 0
    IN  IF predicted.status = "hang" THEN EvalOut(FALSE, TRUE, 0, 0, 0, 0)
        ELSE IF predicted.status = "raise"
            THEN EvalOut(TRUE, FALSE, predicted.dur, 0, 0, 0)
        ELSE IF truth.status = "hang" THEN EvalOut(FALSE, TRUE, predicted.dur, 0, 0, 0)
        ELSE IF truth.status = "raise" THEN EvalOut(TRUE, FALSE, first_two, 0, 0, 0)
        ELSE IF Correct(exec_acc, predicted.val, truth.val)
            THEN IF Len(processed_diff_list) = 0
                 THEN EvalOut(TRUE, FALSE, first_two + loop_dur, 0, full, 2 * iterate_num)
                 ELSE EvalOut(FALSE, FALSE, first_two + loop_dur,
                              SumSeq(processed_diff_list) \div Len(processed_diff_list),
                              full, 2 * iterate_num)
        ELSE EvalOut(FALSE, FALSE, first_two, 0, full, 0)

iterated_execute_sql(predicted_sql, ground_truth, iterate_num, exec_acc) ==
    LET predicted == execute_sql(predicted_sql, 1, FALSE)
        truth == execute_sql(ground_truth, 1, FALSE)
        predicted_time(it) == execute_sql(predicted_sql, it + 1, TRUE)
        ground_truth_time(it) == execute_sql(ground_truth, it + 1, TRUE)
        diff_list == [it \in 1..iterate_num |->
                        FDiv(ground_truth_time(it).val, predicted_time(it).val)]
        processed_diff_list == clean_abnormal(diff_list)
        loop_dur == SumSeq([it \in 1..iterate_num |->
                        predicted_time(it).dur + ground_truth_time(it).dur])
        first_two == predicted.dur + truth.dur
    IN  IF predicted.status = "hang" THEN EvalOut(FALSE, TRUE, 0, 0, 0, 0)
        ELSE IF predicted.status = "raise"
            THEN EvalOut(TRUE, FALSE, predicted.dur, 0, 0, 0)
        ELSE IF truth.status = "hang" THEN EvalOut(FALSE, TRUE, predicted.dur, 0, 1, 0)
        ELSE IF truth.status = "raise" THEN EvalOut(TRUE, FALSE, first_two, 0, 1, 0)
        ELSE IF Correct(exec_acc, predicted.val, truth.val)
            THEN IF Len(processed_diff_list) = 0
                 THEN \* sum([]) / len([]): ZeroDivisionError
                      EvalOut(TRUE, FALSE, first_two + loop_dur, 0, 2, 2 * iterate_num)
                 ELSE EvalOut(FALSE, FALSE, first_two + loop_dur,
                              SumSeq(processed_diff_list) \div Len(processed_diff_list),
                              2, 2 * iterate_num)
        ELSE EvalOut(FALSE, FALSE, first_two, 0, 2, 0)

(* ------------------------------ execute_model ------------------------- *)
\* func_timeout given meta_time_out alone, not scaled by iterate_num
TimedOut_budget_not_scaled(out, iterate_num, meta_time_out) ==
    out.hang \/ out.elapsed > meta_time_out

\* func_timeout(meta_time_out * iterate_num, iterated_execute_sql, ...):
\* FunctionTimedOut when the call has not returned within the budget.
TimedOut(out, iterate_num, meta_time_out) ==
    out.hang \/ out.elapsed > meta_time_out * iterate_num

\* execute_model without "except Exception": an error of the evaluation
\* leaves it
execute_model_errors_escape(pair, idx, iterate_num, meta_time_out, exec_acc, interrupt) ==
    LET out == iterated_execute_sql(pair.pred, pair.gt, iterate_num, exec_acc)
        timed_out == TimedOut(out, iterate_num, meta_time_out)
    IN IF interrupt
       THEN [outcome |-> "exit", value |-> [sql_idx |-> idx, time_ratio |-> 0]]
       ELSE IF ~timed_out /\ out.exc
       THEN [outcome |-> "raise", value |-> [sql_idx |-> idx, time_ratio |-> 0]]
       ELSE [outcome |-> "return",
             value |-> [sql_idx |-> idx,
                        time_ratio |-> IF timed_out THEN 0 ELSE out.time_ratio]]

\* execute_model without "except FunctionTimedOut": FunctionTimedOut is a
\* BaseException, "except Exception" does not catch it
execute_model_timeout_escapes(pair, idx, iterate_num, meta_time_out, exec_acc, interrupt) ==
    LET out == iterated_execute_sql(pair.pred, pair.gt, iterate_num, exec_acc)
        timed_out == TimedOut(out, iterate_num, meta_time_out)
    IN IF interrupt \/ timed_out
       THEN [outcome |-> "exit", value |-> [sql_idx |-> idx, time_ratio |-> 0]]
       ELSE [outcome |-> "return",
             value |-> [sql_idx |-> idx,
                        time_ratio |-> IF out.exc THEN 0 ELSE out.time_ratio]]

\* execute_model whose timeout branch forgets "time_ratio = 0" and keeps
\* the ratio of the abandoned evaluation
execute_model_timeout_keeps_ratio(pair, idx, iterate_num, meta_time_out, exec_acc, interrupt) ==
    LET out == iterated_execute_sql(pair.pred, pair.gt, iterate_num, exec_acc)
    IN IF interrupt
       THEN [outcome |-> "exit", value |-> [sql_idx |-> idx, time_ratio |-> 0]]
       ELSE [outcome |-> "return",
             value |-> [sql_idx |-> idx,
                        time_ratio |-> IF out.exc THEN 0 ELSE out.time_ratio]]

\* What the worker's call of execute_model ends in.  outcome "return": it
\* returns value; "raise": an Exception leaves it; "exit": a BaseException
\* leaves it (sys.exit(0) raises SystemExit).  interrupt: a KeyboardInterrupt
\* reaches the call while func_timeout waits.
execute_model(pair, idx, iterate_num, meta_time_out, exec_acc, interrupt) ==
    LET out == iterated_execute_sql(pair.pred, pair.gt, iterate_num, exec_acc)
        time_ratio == IF TimedOut(out, iterate_num, meta_time_out) THEN 0
                      ELSE IF out.exc THEN 0
                      ELSE out.time_ratio
    IN IF interrupt
       THEN [outcome |-> "exit", value |-> [sql_idx |-> idx, time_ratio |-> 0]]
       ELSE [outcome |-> "return",
             value |-> [sql_idx |-> idx, time_ratio |-> time_ratio]]

\* Everything a run shows of one task: the dict execute_model returns, which
\* result_callback appends, and one update of the progress bar.  The markers
\* "timeout" and "error" bound to result in the except branches are
\* overwritten by the dict; nothing is printed or logged.
TaskOutput(pair, idx, iterate_num, meta_time_out, exec_acc) ==
    [result |-> execute_model(pair, idx, iterate_num, meta_time_out,
                              exec_acc, FALSE).value,
     progress_bar |-> 1]

(* ------------------------------ aggregation --------------------------- *)
\* sort_results (evaluation_utils): the results ordered by sql_idx,
\* by insertion into an ordered list
RECURSIVE InsertByIdx(_, _)
InsertByIdx(sorted, r) ==
    IF sorted = <<>> THEN <<r>>
    ELSE IF r.sql_idx < Head(sorted).sql_idx THEN <<r>> \o sorted
    ELSE <<Head(sorted)>> \o InsertByIdx(Tail(sorted), r)

RECURSIVE sort_results(_)
sort_results(list_of_dicts) ==
    IF list_of_dicts = <<>> THEN <<>>
    ELSE InsertByIdx(sort_results(SubSeq(list_of_dicts, 1, Len(list_of_dicts) - 1)),
                     list_of_dicts[Len(list_of_dicts)])

\* compute_ves dividing by count, the number of results with a ratio other
\* than 0, which the function counts and does not use
compute_ves_by_count(exec_results) ==
    LET num_queries == Len(exec_results)
        total_ratio == SumSeq([i \in 1..num_queries |->
                                 SqrtTimes100(exec_results[i].time_ratio)])
        count == Cardinality({i \in 1..num_queries : exec_results[i].time_ratio # 0})
    IN IF count = 0 THEN [raised |-> TRUE, ves |-> 0]
       ELSE [raised |-> FALSE, ves |-> total_ratio \div count]

\* compute_ves: raised = ZeroDivisionError (total_ratio / 0)
compute_ves(exec_results) ==
    LET num_queries == Len(exec_results)
        total_ratio == SumSeq([i \in 1..num_queries |->
                                 SqrtTimes100(exec_results[i].time_ratio)])
    IN IF num_queries = 0 THEN [raised |-> TRUE, ves |-> 0]
       ELSE [raised |-> FALSE, ves |-> total_ratio \div num_queries]

Labels == {"simple", "moderate", "challenging"}

\* the bucket of one label: exec_results[i] for every position i of contents
\* that carries the label, in order
Bucket(exec_results, diff, label) ==
    SelectIdx(exec_results, [i \in 1..Len(exec_results) |-> diff[i] = label])

\* compute_ves_by_diff: the four scores are computed in the order simple,
\* moderate, challenging, all; the first ZeroDivisionError leaves the
\* function and nothing is returned.
compute_ves_by_diff(exec_results, diff) ==
    LET simple_results == Bucket(exec_results, diff, "simple")
        moderate_results == Bucket(exec_results, diff, "moderate")
        challenging_results == Bucket(exec_results, diff, "challenging")
        simple_ves == compute_ves(simple_results)
        moderate_ves == compute_ves(moderate_results)
        challenging_ves == compute_ves(challenging_results)
        all_ves == compute_ves(exec_results)
    IN IF simple_ves.raised \/ moderate_ves.raised
          \/ challenging_ves.raised \/ all_ves.raised
       THEN [status |-> "ZeroDivisionError",
             scores |-> <<>>, count_lists |-> <<>>]
       ELSE [status |-> "returned",
             scores |-> <<simple_ves.ves, moderate_ves.ves,
                          challenging_ves.ves, all_ves.ves>>,
             count_lists |-> <<Len(simple_results), Len(moderate_results),
                               Len(challenging_results), Len(exec_results)>>]

(* ------------------------------- state -------------------------------- *)
VARIABLES
    sqls,           \* the query pairs (with what the database does with them)
    exec_acc_list,  \* <<>> (None or empty) or one flag per pair
    num_cpus, iterate_num, meta_time_out,
    pc,             \* where the main thread is
    next_i,         \* pairs submitted so far by the apply_async loop
    taskqueue,      \* jobs submitted and not yet taken by a worker
    worker,         \* worker -> <<>> (idle) or <<job>> (in execute_model)
    outqueue,       \* what workers gave back, not yet handled
    cache,          \* jobs whose ApplyResult is not set yet
    exec_result,    \* the module-level result list
    progress_bar,   \* updates of the progress bar
    abandoned,      \* jobs timed out whose helper thread still runs its query
    lost,           \* jobs whose worker process exited before answering
    interrupts,     \* user interrupts delivered so far
    contents,       \* the difficulty labels read by compute_ves_by_diff
    report,         \* what compute_ves_by_diff gave __main__
    eval_out        \* the outcome of a single call of the evaluator or the filter

vars == <<sqls, exec_acc_list, num_cpus, iterate_num, meta_time_out, pc, next_i,
          taskqueue, worker, outqueue, cache, exec_result, progress_bar,
          abandoned, lost, interrupts, contents, report, eval_out>>

inputs == <<sqls, exec_acc_list, num_cpus, iterate_num, meta_time_out>>

N == Len(sqls)
Tasks == 0..(N - 1)
Idle == <<>>
NoReport == [status |-> "none", scores |-> <<>>, count_lists |-> <<>>]
NoEval == [status |-> "none"]

(* --------------------------- the workload ----------------------------- *)
Sql(rows, error, hangs, times) ==
    [rows |-> rows, error |-> error, hangs |-> hangs, times |-> times]

Steady(d) == [j \in 1..MaxIter + 1 |-> d]
\* the second execution (the first timed one) is the slow one
WarmUp == [j \in 1..MaxIter + 1 |-> IF j = 2 THEN MaxDur ELSE 1]

Truth == Sql(<<1, 2>>, FALSE, FALSE, Steady(MaxDur))

\* the pairs the dispatcher is run on: a correct prediction, a prediction
\* with other rows, one that does not execute, one that hangs
TaskMix ==
    { [pred |-> Sql(<<2, 1>>, FALSE, FALSE, WarmUp), gt |-> Truth],
      [pred |-> Sql(<<1>>, FALSE, FALSE, Steady(1)), gt |-> Truth],
      [pred |-> Sql(<<>>, TRUE, FALSE, Steady(1)), gt |-> Truth],
      [pred |-> Sql(<<>>, FALSE, TRUE, Steady(1)), gt |-> Truth] }

SeqsUpTo(S, n) == UNION {[1..k -> S] : k \in 0..n}

ExecAccLists(n) == {<<>>} \cup {[i \in 1..n |-> f] : f \in {0, 1}}

Init ==
    /\ sqls \in SeqsUpTo(TaskMix, NumTasks)
    /\ exec_acc_list \in ExecAccLists(Len(sqls))
    /\ num_cpus \in 1..MaxCpus
    /\ iterate_num \in 1..MaxIter
    /\ meta_time_out \in {1, MaxTimeOut}
    /\ pc = "start"
    /\ next_i = 0
    /\ taskqueue = <<>>
    /\ worker = [w \in 1..num_cpus |-> Idle]
    /\ outqueue = <<>>
    /\ cache = {}
    /\ exec_result = <<>>
    /\ progress_bar = 0
    /\ abandoned = {}
    /\ lost = {}
    /\ interrupts = 0
    /\ contents = <<>>
    /\ report = NoReport
    /\ eval_out = NoEval

(* --------------------------- run_sqls_parallel ------------------------ *)
\* run_sqls_parallel without exec_result.clear()
RunStart_keeps_results ==
    /\ pc = "start"
    /\ progress_bar' = 0
    /\ worker' = [w \in 1..num_cpus |-> Idle]
    /\ pc' = "submit"
    /\ UNCHANGED <<inputs, next_i, taskqueue, outqueue, cache, abandoned, lost,
                   contents, report, eval_out, interrupts, exec_result>>

\* exec_result.clear(); progress_bar = tqdm(...); pool = mp.Pool(num_cpus)
RunStart ==
    /\ pc = "start"
    /\ exec_result' = <<>>
    /\ progress_bar' = 0
    /\ worker' = [w \in 1..num_cpus |-> Idle]
    /\ pc' = "submit"
    /\ UNCHANGED <<inputs, next_i, taskqueue, outqueue, cache, abandoned, lost,
                   contents, report, eval_out, interrupts>>

\* the job apply_async submits for position i (0-based) of sqls
Job(i) ==
    [idx |-> i,
     pair |-> sqls[i + 1],
     exec_acc |-> IF exec_acc_list # <<>> THEN Flag(exec_acc_list[i + 1]) ELSE NoFlag]

\* one turn of the loop: pool.apply_async(execute_model, ..., callback)
Submit ==
    /\ pc = "submit"
    /\ next_i < N
    /\ taskqueue' = Append(taskqueue, Job(next_i))
    /\ cache' = cache \cup {next_i}
    /\ next_i' = next_i + 1
    /\ UNCHANGED <<inputs, pc, worker, outqueue, exec_result, progress_bar,
                   abandoned, lost, contents, report, eval_out, interrupts>>

\* pool.close()
PoolClose ==
    /\ pc = "submit"
    /\ next_i = N
    /\ pc' = "join"
    /\ UNCHANGED <<inputs, next_i, taskqueue, worker, outqueue, cache, exec_result,
                   progress_bar, abandoned, lost, contents, report, eval_out, interrupts>>

\* run_sqls_parallel returning after pool.close() without pool.join()
PoolJoinWithoutWaiting ==
    /\ pc = "join"
    /\ pc' = "returned"
    /\ abandoned' = {}
    /\ UNCHANGED <<inputs, next_i, taskqueue, worker, outqueue, cache, exec_result,
                   progress_bar, lost, contents, report, eval_out, interrupts>>

\* pool.join() returns once every submitted job has its result set: the
\* pool's handler threads end only then, and the workers exit (their
\* daemon helper threads with them); return exec_result
PoolJoin ==
    /\ pc = "join"
    /\ cache = {}
    /\ pc' = "returned"
    /\ abandoned' = {}
    /\ UNCHANGED <<inputs, next_i, taskqueue, worker, outqueue, cache, exec_result,
                   progress_bar, lost, contents, report, eval_out, interrupts>>

(* ------------------------------ the workers --------------------------- *)
\* an idle worker takes the oldest job and enters execute_model
WorkerGet(w) ==
    /\ pc \in {"submit", "join"}
    /\ worker[w] = Idle
    /\ taskqueue # <<>>
    /\ worker' = [worker EXCEPT ![w] = <<Head(taskqueue)>>]
    /\ taskqueue' = Tail(taskqueue)
    /\ UNCHANGED <<inputs, pc, next_i, outqueue, cache, exec_result, progress_bar,
                   abandoned, lost, contents, report, eval_out, interrupts>>

JobOut(job) ==
    iterated_execute_sql(job.pair.pred, job.pair.gt, iterate_num, job.exec_acc)

JobTimedOut(job) == TimedOut(JobOut(job), iterate_num, meta_time_out)

\* a worker loop that, besides answering, puts a timed-out job back on the
\* task queue to have it evaluated again
WorkerCall_retries_timed_out(w, interrupt) ==
    /\ worker[w] # Idle
    /\ LET job == worker[w][1]
           res == execute_model(job.pair, job.idx, iterate_num, meta_time_out,
                                job.exec_acc, interrupt)
       IN IF res.outcome = "exit"
          THEN /\ lost' = lost \cup {job.idx}
               /\ UNCHANGED <<outqueue, abandoned, taskqueue>>
          ELSE /\ outqueue' = Append(outqueue,
                                [job |-> job.idx,
                                 success |-> res.outcome = "return",
                                 value |-> res.value])
               /\ abandoned' = IF JobTimedOut(job) THEN abandoned \cup {job.idx}
                               ELSE abandoned
               /\ taskqueue' = IF JobTimedOut(job) THEN Append(taskqueue, job)
                               ELSE taskqueue
               /\ lost' = lost
    /\ worker' = [worker EXCEPT ![w] = Idle]
    /\ UNCHANGED <<inputs, pc, next_i, cache, exec_result, progress_bar,
                   contents, report, eval_out>>

\* The pool's worker loop around one call of execute_model: a return or an
\* Exception is handed back to the pool; on a BaseException the worker
\* process exits with the job unanswered and the pool starts a new worker
\* in its place.  After FunctionTimedOut the helper thread is left behind
\* in its query.
WorkerCall(w, interrupt) ==
    /\ worker[w] # Idle
    /\ LET job == worker[w][1]
           res == execute_model(job.pair, job.idx, iterate_num, meta_time_out,
                                job.exec_acc, interrupt)
       IN IF res.outcome = "exit"
          THEN /\ lost' = lost \cup {job.idx}
               /\ UNCHANGED <<outqueue, abandoned>>
          ELSE /\ outqueue' = Append(outqueue,
                                [job |-> job.idx,
                                 success |-> res.outcome = "return",
                                 value |-> res.value])
               /\ abandoned' = IF JobTimedOut(job) THEN abandoned \cup {job.idx}
                               ELSE abandoned
               /\ lost' = lost
    /\ worker' = [worker EXCEPT ![w] = Idle]
    /\ UNCHANGED <<inputs, pc, next_i, taskqueue, cache, exec_result, progress_bar,
                   contents, report, eval_out>>

\* the evaluation runs to its end, its error or its timeout
WorkerRun(w) ==
    /\ WorkerCall(w, FALSE)
    /\ UNCHANGED interrupts

\* the user's interrupt reaches a worker that is evaluating a job
KeyboardInterrupt(w) ==
    /\ interrupts < MaxInterrupts
    /\ interrupts' = interrupts + 1
    /\ WorkerCall(w, TRUE)

\* the query of an abandoned helper thread returns and the thread ends
ThreadEnds(i) ==
    /\ i \in abandoned
    /\ ~JobOut(Job(i)).hang
    /\ abandoned' = abandoned \ {i}
    /\ UNCHANGED <<inputs, pc, next_i, taskqueue, worker, outqueue, cache,
                   exec_result, progress_bar, lost, contents, report, eval_out, interrupts>>

(* --------------------------- result_callback -------------------------- *)
\* a callback that numbers the results in their order of arrival
result_callback_by_arrival(result) ==
    Append(exec_result, [result EXCEPT !.sql_idx = Len(exec_result)])

\* exec_result.append(result); progress_bar.update()
result_callback(result) == Append(exec_result, result)

\* the pool's result thread: ApplyResult._set calls the callback of a
\* successful job, then drops the job from the cache
HandleResult ==
    /\ outqueue # <<>>
    /\ LET r == Head(outqueue)
       IN /\ exec_result' = IF r.success THEN result_callback(r.value)
                            ELSE exec_result
          /\ progress_bar' = IF r.success THEN progress_bar + 1 ELSE progress_bar
          /\ cache' = cache \ {r.job}
    /\ outqueue' = Tail(outqueue)
    /\ UNCHANGED <<inputs, pc, next_i, taskqueue, worker, abandoned, lost,
                   contents, report, eval_out, interrupts>>

(* -------------------------------- __main__ ---------------------------- *)
\* __main__ going on to the scores with the results as they arrived
SortResultsSkipped ==
    /\ pc = "returned"
    /\ pc' = "sorted"
    /\ UNCHANGED <<inputs, next_i, taskqueue, worker, outqueue, cache, exec_result,
                   progress_bar, abandoned, lost, contents, report, eval_out,
                   interrupts>>

\* exec_result = sort_results(exec_result)
SortResults ==
    /\ pc = "returned"
    /\ exec_result' = sort_results(exec_result)
    /\ pc' = "sorted"
    /\ UNCHANGED <<inputs, next_i, taskqueue, worker, outqueue, cache, progress_bar,
                   abandoned, lost, contents, report, eval_out, interrupts>>

\* compute_ves_by_diff(exec_result, diff_json_path): load_json gives one
\* difficulty label per position of the query list
ComputeVes ==
    /\ pc = "sorted"
    /\ \E diff \in [1..N -> Labels] :
        /\ contents' = diff
        /\ report' = compute_ves_by_diff(exec_result, diff)
    /\ pc' = "scored"
    /\ UNCHANGED <<inputs, next_i, taskqueue, worker, outqueue, cache, exec_result,
                   progress_bar, abandoned, lost, eval_out, interrupts>>

Next ==
    \/ RunStart
    \/ Submit
    \/ PoolClose
    \/ PoolJoin
    \/ \E w \in 1..num_cpus : WorkerGet(w)
    \/ \E w \in 1..num_cpus : WorkerRun(w)
    \/ \E w \in 1..num_cpus : KeyboardInterrupt(w)
    \/ \E i \in abandoned : ThreadEnds(i)
    \/ HandleResult
    \/ SortResults
    \/ ComputeVes

Spec == Init /\ [][Next]_vars

(* ----------------------- the evaluator alone -------------------------- *)
\* One call of execute_model on one pair, for every pair of a range of
\* database behaviours, every flag, every iteration count.
Timings == [1..(MaxIter + 1) -> Durations]
\* a first execution longer than any meta_time_out, then a fast and a slower
\* timed one
Spike == [j \in 1..(MaxIter + 1) |->
            IF j = 1 THEN MaxTimeOut + 1 ELSE IF j = 2 THEN 1 ELSE 2]
PredSqls ==
    {Sql(rows, b[1], b[2], times) :
        rows \in RowLists,
        b \in {<<FALSE, FALSE>>, <<TRUE, FALSE>>, <<FALSE, TRUE>>},
        times \in Timings \cup {Spike}}
\* the flags of the evaluator's runs: none, 0, 1, and a value other than both
EvalFlags == ExecAccLists(1) \cup {<<2>>}
TruthSqls ==
    {Sql(rows, error, FALSE, Steady(d)) :
        rows \in {<<1, 2>>, <<1, 1>>}, error \in BOOLEAN, d \in Durations}

EvalInit ==
    /\ \E pred \in PredSqls, gt \in TruthSqls : sqls = <<[pred |-> pred, gt |-> gt]>>
    /\ exec_acc_list \in EvalFlags
    /\ num_cpus = 1
    /\ iterate_num \in 1..MaxIter
    /\ meta_time_out \in {1, MaxTimeOut}
    /\ pc = "evaluate"
    /\ next_i = 0
    /\ taskqueue = <<>>
    /\ worker = [w \in 1..num_cpus |-> Idle]
    /\ outqueue = <<>>
    /\ cache = {}
    /\ exec_result = <<>>
    /\ progress_bar = 0
    /\ abandoned = {}
    /\ lost = {}
    /\ interrupts = 0
    /\ contents = <<>>
    /\ report = NoReport
    /\ eval_out = NoEval

Evaluate ==
    /\ pc = "evaluate"
    /\ LET job == Job(0)
       IN eval_out' =
            [status |-> "done",
             out |-> JobOut(job),
             timed_out |-> JobTimedOut(job),
             res |-> execute_model(job.pair, job.idx, iterate_num, meta_time_out,
                                   job.exec_acc, FALSE)]
    /\ pc' = "evaluated"
    /\ UNCHANGED <<inputs, next_i, taskqueue, worker, outqueue, cache, exec_result,
                   progress_bar, abandoned, lost, interrupts, contents, report>>

EvalSpec == EvalInit /\ [][Evaluate]_vars

(* -------------------------- the filter alone -------------------------- *)
\* One call of clean_abnormal on one list of ratios, for every list of up to
\* FilterLen ratios 1, 2 and 100.
FilterRatios == {1 * Scale, 2 * Scale, 100 * Scale}

FilterInit ==
    /\ sqls = <<>>
    /\ exec_acc_list = <<>>
    /\ num_cpus = 1
    /\ iterate_num = 1
    /\ meta_time_out = 1
    /\ pc = "filter"
    /\ next_i = 0
    /\ taskqueue = <<>>
    /\ worker = [w \in 1..num_cpus |-> Idle]
    /\ outqueue = <<>>
    /\ cache = {}
    /\ exec_result = <<>>
    /\ progress_bar = 0
    /\ abandoned = {}
    /\ lost = {}
    /\ interrupts = 0
    /\ contents = <<>>
    /\ report = NoReport
    /\ \E n \in 1..FilterLen : \E diff_list \in [1..n -> FilterRatios] :
            eval_out = [status |-> "ratios", diff_list |-> diff_list]

\* processed_diff_list = clean_abnormal(diff_list)
CleanAbnormal ==
    /\ pc = "filter"
    /\ eval_out' = [status |-> "filtered",
                    diff_list |-> eval_out.diff_list,
                    processed_diff_list |-> clean_abnormal(eval_out.diff_list)]
    /\ pc' = "filtered"
    /\ UNCHANGED <<inputs, next_i, taskqueue, worker, outqueue, cache, exec_result,
                   progress_bar, abandoned, lost, interrupts, contents, report>>

FilterSpec == FilterInit /\ [][CleanAbnormal]_vars

(* ----------------------- the aggregation alone ------------------------ *)
\* __main__ after run_sqls_parallel has returned, for every order of arrival
\* of the results and a range of ratios.
AggRatios == {0, 1 * Scale, 4 * Scale, 9 * Scale}

AggInit ==
    /\ sqls \in SeqsUpTo({[pred |-> Truth, gt |-> Truth]}, AggTasks)
    /\ exec_acc_list = <<>>
    /\ num_cpus = 1
    /\ iterate_num = MaxIter
    /\ meta_time_out = MaxTimeOut
    /\ pc = "returned"
    /\ next_i = N
    /\ taskqueue = <<>>
    /\ worker = [w \in 1..num_cpus |-> Idle]
    /\ outqueue = <<>>
    /\ cache = {}
    /\ exec_result \in {r \in [1..N -> [sql_idx : Tasks, time_ratio : AggRatios]] :
                           \A i, j \in 1..N : i # j => r[i].sql_idx # r[j].sql_idx}
    /\ progress_bar = N
    /\ abandoned = {}
    /\ lost = {}
    /\ interrupts = 0
    /\ contents = <<>>
    /\ report = NoReport
    /\ eval_out = NoEval

AggNext == SortResults \/ ComputeVes

AggSpec == AggInit /\ [][AggNext]_vars

(* ------------------------- fair scheduling ---------------------------- *)
\* The steps the program itself takes: the main thread, the workers and the
\* pool's result thread keep running; the user's interrupt and the end of an
\* abandoned query are the environment's.
\* A step in which busy worker w comes back from execute_model without an
\* interrupt: the steps of WorkerRun(w), told by what they do to worker and
\* interrupts.
WorkerReturns(w) ==
    /\ worker[w] # Idle
    /\ worker' = [worker EXCEPT ![w] = Idle]
    /\ interrupts' = interrupts

\* the main thread, the pool's threads, and idle workers taking jobs
Progress ==
    \/ RunStart
    \/ Submit
    \/ PoolClose
    \/ PoolJoin
    \/ \E w \in 1..num_cpus : WorkerGet(w)
    \/ HandleResult

Fairness ==
    /\ WF_vars(Progress)
    /\ WF_<<worker, interrupts>>(\E w \in 1..num_cpus : WorkerReturns(w))

\* the dispatcher alone: run_sqls_parallel from its call to its return
RunNext ==
    \/ RunStart
    \/ Submit
    \/ PoolClose
    \/ PoolJoin
    \/ \E w \in 1..num_cpus : WorkerGet(w)
    \/ \E w \in 1..num_cpus : WorkerRun(w)
    \/ \E w \in 1..num_cpus : KeyboardInterrupt(w)
    \/ \E i \in abandoned : ThreadEnds(i)
    \/ HandleResult

\* a full task list of pairwise different pairs, no flags
FairInit ==
    /\ Init
    /\ Len(sqls) = NumTasks
    /\ \A i, j \in 1..NumTasks : i # j => sqls[i] # sqls[j]
    /\ iterate_num = MaxIter
    /\ exec_acc_list = <<>>

FairSpec == FairInit /\ [][RunNext]_vars /\ Fairness

(* ------------------------ repeated invocations ------------------------ *)
\* run_sqls_parallel called again in the same process, on another task list:
\* the module-level exec_result and progress_bar are as the invocation
\* before left them.
CallAgain ==
    /\ pc = "returned"
    /\ sqls' \in SeqsUpTo(TaskMix, NumTasks)
    /\ next_i' = 0
    /\ pc' = "start"
    /\ UNCHANGED <<exec_acc_list, num_cpus, iterate_num, meta_time_out, taskqueue,
                   worker, outqueue, cache, exec_result, progress_bar, abandoned,
                   lost, interrupts, contents, report, eval_out>>

\* the process at a call of run_sqls_parallel that follows an earlier
\* invocation on a non-empty task list
RerunInit ==
    /\ sqls \in SeqsUpTo(TaskMix, NumTasks)
    /\ exec_acc_list = <<>>
    /\ num_cpus \in 1..MaxCpus
    /\ iterate_num = MaxIter
    /\ meta_time_out \in {1, MaxTimeOut}
    /\ pc = "start"
    /\ next_i = 0
    /\ taskqueue = <<>>
    /\ worker = [w \in 1..num_cpus |-> Idle]
    /\ outqueue = <<>>
    /\ cache = {}
    /\ \E earlier \in SeqsUpTo(TaskMix, NumTasks) \ {<<>>} :
        exec_result =
            [k \in 1..Len(earlier) |->
                execute_model(earlier[k], k - 1, iterate_num, meta_time_out,
                              NoFlag, FALSE).value]
    /\ progress_bar = Len(exec_result)
    /\ abandoned = {}
    /\ lost = {}
    /\ interrupts = 0
    /\ contents = <<>>
    /\ report = NoReport
    /\ eval_out = NoEval

RerunNext ==
    \/ RunStart
    \/ Submit
    \/ PoolClose
    \/ PoolJoin
    \/ \E w \in 1..num_cpus : WorkerGet(w)
    \/ \E w \in 1..num_cpus : WorkerRun(w)
    \/ \E w \in 1..num_cpus : KeyboardInterrupt(w)
    \/ \E i \in abandoned : ThreadEnds(i)
    \/ HandleResult
    \/ CallAgain

RerunSpec == RerunInit /\ [][RerunNext]_vars

(* ------------------------------ vocabulary ---------------------------- *)
Returned == pc \in {"returned", "sorted", "scored"}
Indices(results) == {results[k].sql_idx : k \in 1..Len(results)}
ResultsOf(i) == {k \in 1..Len(exec_result) : exec_result[k].sql_idx = i}
\* what has been handed back for job i, handled or not
Answers(i) ==
    {exec_result[k] : k \in ResultsOf(i)}
        \cup {outqueue[k].value : k \in {j \in 1..Len(outqueue) : outqueue[j].job = i}}
JobErrored(job) == JobOut(job).exc /\ ~JobTimedOut(job)
InOrder(results) ==
    \A k \in 1..(Len(results) - 1) : results[k].sql_idx < results[k + 1].sql_idx

(* ------------------------------- claims ------------------------------- *)
\* C1: when run_sqls_parallel has returned, exec_result holds exactly N
\* results and their sql_idx are exactly 0..N-1, none twice, none missing,
\* whatever the pool size, the completion order, and the tasks that timed
\* out or raised.
C1_ResultsCoverAllIndices ==
    Returned =>
        /\ Len(exec_result) = N
        /\ Indices(exec_result) = Tasks
        /\ \A i \in Tasks : Cardinality(ResultsOf(i)) = 1

C1_Witness ==
    /\ pc = "returned"
    /\ N = NumTasks
    /\ num_cpus = MaxCpus
    /\ ~InOrder(exec_result)
    /\ \E i \in Tasks : JobTimedOut(Job(i))
    /\ \E i \in Tasks : JobErrored(Job(i))

\* C2: under fair scheduling, unless the user interrupts the run, the run
\* returns, and it returns with exactly one result for every submitted task,
\* also when evaluations hang, time out or raise.
C2_RunReturnsWithOneResultEach ==
    <>(\/ interrupts > 0
       \/ /\ pc = "returned"
          /\ \A i \in Tasks : Cardinality(ResultsOf(i)) = 1)

C2_Witness ==
    /\ pc = "returned"
    /\ interrupts = 0
    /\ N = NumTasks
    /\ \E i \in Tasks : JobOut(Job(i)).hang
    /\ \E i \in Tasks : JobErrored(Job(i))
    /\ \E i \in Tasks : JobTimedOut(Job(i)) /\ ~JobOut(Job(i)).hang

\* C3: a task whose evaluation does not finish within meta_time_out *
\* iterate_num is answered with time_ratio 0 under its own index, and once it
\* is answered every other task still gets its result (unless the user
\* interrupts the run).
C3_TimeoutScoresZeroAndBlocksNobody ==
    /\ [](\A i \in 0..(NumTasks - 1) :
            (i < N /\ JobTimedOut(Job(i))) =>
                \A r \in Answers(i) : r.sql_idx = i /\ r.time_ratio = 0)
    /\ \A i \in 0..(NumTasks - 1) :
        (i < N /\ JobTimedOut(Job(i)) /\ Answers(i) # {})
            ~> (interrupts > 0 \/ \A j \in Tasks : ResultsOf(j) # {})

C3_Witness ==
    /\ N = NumTasks
    /\ num_cpus = 1
    /\ interrupts = 0
    /\ JobOut(Job(0)).hang
    /\ ~JobTimedOut(Job(1))
    /\ ResultsOf(0) # {}
    /\ \E k \in ResultsOf(1) : exec_result[k].time_ratio > 0

\* C4: an error raised inside a task's evaluation never leaves execute_model:
\* the task is answered, as a success of the pool, with time_ratio 0 under
\* its own index; no worker is lost to it, and the run returns with the
\* results of all tasks.
C4_ErrorsBecomeZeroResults ==
    /\ \A k \in 1..Len(outqueue) : outqueue[k].success
    /\ interrupts = 0 => lost = {}
    /\ \A i \in Tasks :
        JobErrored(Job(i)) =>
            \A r \in Answers(i) : r.sql_idx = i /\ r.time_ratio = 0
    /\ (Returned /\ \E i \in Tasks : JobErrored(Job(i))) =>
            \A j \in Tasks : ResultsOf(j) # {}

C4_Witness ==
    /\ pc = "returned"
    /\ N = NumTasks
    /\ JobErrored(Job(0))
    /\ JobOut(Job(0)).full_execs = 0
    /\ \E i \in Tasks : JobErrored(Job(i)) /\ JobOut(Job(i)).timed_execs > 0
    /\ \E k \in 1..Len(exec_result) : exec_result[k].time_ratio > 0

\* C5: with no correctness flag, when both queries return rows and the two
\* row sets differ, iterated_execute_sql returns exactly 0 and makes no timed
\* execution of either query (and execute_model answers 0).
EvalBothReturnRows ==
    /\ ~sqls[1].pred.error /\ ~sqls[1].pred.hangs
    /\ ~sqls[1].gt.error /\ ~sqls[1].gt.hangs

C5_WrongRowsScoreZeroUntimed ==
    (/\ eval_out.status = "done"
     /\ exec_acc_list = <<>>
     /\ EvalBothReturnRows
     /\ Range(sqls[1].pred.rows) # Range(sqls[1].gt.rows))
        => /\ ~eval_out.out.exc
           /\ eval_out.out.time_ratio = 0
           /\ eval_out.out.timed_execs = 0
           /\ eval_out.out.full_execs = 2
           /\ eval_out.res.outcome = "return"
           /\ eval_out.res.value.time_ratio = 0

C5_Witness ==
    /\ eval_out.status = "done"
    /\ exec_acc_list = <<>>
    /\ EvalBothReturnRows
    /\ sqls[1].pred.rows = <<1>>
    /\ sqls[1].gt.rows = <<1, 2>>
    /\ ~eval_out.timed_out
    /\ eval_out.out.timed_execs = 0

\* C6: the results returned do not depend on the pool size.  With one worker
\* exec_result is the list of the jobs' results in submission order; with any
\* number of workers it is that list as a set of (sql_idx, time_ratio) pairs.
SequentialRun ==
    [k \in 1..N |->
        execute_model(Job(k - 1).pair, k - 1, iterate_num, meta_time_out,
                      Job(k - 1).exec_acc, FALSE).value]

C6_ResultsIndependentOfPoolSize ==
    /\ (pc = "returned" /\ num_cpus = 1) => exec_result = SequentialRun
    /\ pc = "returned" => Range(exec_result) = Range(SequentialRun)

C6_Witness ==
    /\ pc = "returned"
    /\ num_cpus = MaxCpus
    /\ N = NumTasks
    /\ exec_result # SequentialRun
    /\ \E k \in 1..N : exec_result[k].time_ratio > 0
    /\ \E k \in 1..N : exec_result[k].time_ratio = 0

\* C7: the score of a non-empty bucket, and of the whole list, is the sum of
\* sqrt(time_ratio) * 100 over its tasks divided by the number of its tasks,
\* the tasks with ratio 0 counted; ratios 4 and 9 give 250, ratios 4 and 0
\* give 100.
RootOf(ratio) == CHOOSE k \in 0..3 : k * k * Scale = ratio
RECURSIVE RootSum(_)
RootSum(positions) ==
    IF positions = {} THEN 0
    ELSE LET k == CHOOSE x \in positions : TRUE
         IN RootOf(exec_result[k].time_ratio) + RootSum(positions \ {k})
MeanScore(positions) == (RootSum(positions) * 100 * Scale) \div Cardinality(positions)
Labelled(label) == {k \in 1..N : contents[k] = label}
LabelOrder == <<"simple", "moderate", "challenging">>
RatiosOf(results) == [k \in 1..Len(results) |-> results[k].time_ratio]

C7_ScoreIsMeanOfRoots ==
    pc = "scored" =>
        /\ \A b \in 1..3 :
            Labelled(LabelOrder[b]) # {} =>
                LET bucket == compute_ves(Bucket(exec_result, contents, LabelOrder[b]))
                IN /\ ~bucket.raised
                   /\ bucket.ves = MeanScore(Labelled(LabelOrder[b]))
                   /\ report.status = "returned" => report.scores[b] = bucket.ves
        /\ N > 0 => compute_ves(exec_result).ves = MeanScore(1..N)
        /\ report.status = "returned" => report.scores[4] = MeanScore(1..N)
        /\ RatiosOf(exec_result) = <<4 * Scale, 9 * Scale>>
            => compute_ves(exec_result).ves = 250 * Scale
        /\ RatiosOf(exec_result) = <<4 * Scale, 0>>
            => compute_ves(exec_result).ves = 100 * Scale

\* a bucket of ratios 4 and 0 scores 100, and the report carries it
C7_Witness ==
    /\ pc = "scored"
    /\ report.status = "returned"
    /\ RatiosOf(exec_result) = <<4 * Scale, 0, 9 * Scale, 1 * Scale>>
    /\ contents = <<"simple", "simple", "moderate", "challenging">>
    /\ report.scores = <<100 * Scale, 300 * Scale, 100 * Scale, 150 * Scale>>

\* C8: __main__ sorts the results by sql_idx before it scores them, so for
\* every order of arrival the result of task i is in the bucket of the label
\* at position i, and each bucket's score is the score of the tasks that
\* carry its label.
RatioOfTask(i) == exec_result[CHOOSE k \in ResultsOf(i) : TRUE].time_ratio
TaskScores(label) ==
    LET tasks == {i \in Tasks : contents[i + 1] = label}
        F[k \in 0..N] ==
            IF k = 0 THEN 0
            ELSE F[k - 1] + (IF (k - 1) \in tasks
                             THEN SqrtTimes100(RatioOfTask(k - 1)) ELSE 0)
    IN F[N] \div Cardinality(tasks)

C8_ResultsBucketedByOwnIndex ==
    /\ pc \in {"sorted", "scored"} => InOrder(exec_result)
    /\ pc = "scored" =>
        /\ \A k \in 1..N :
            \E m \in 1..Len(Bucket(exec_result, contents,
                                   contents[exec_result[k].sql_idx + 1])) :
                Bucket(exec_result, contents,
                       contents[exec_result[k].sql_idx + 1])[m] = exec_result[k]
        /\ report.status = "returned" =>
            \A b \in 1..3 : report.scores[b] = TaskScores(LabelOrder[b])

\* the tasks arrived out of order, and a task with a ratio and a task
\* without one carry different labels
C8_Witness ==
    /\ pc = "scored"
    /\ report.status = "returned"
    /\ ~InOrder(SequentialRun) \/ num_cpus > 1
    /\ \E i, j \in Tasks :
        /\ contents[i + 1] # contents[j + 1]
        /\ RatioOfTask(i) > 0
        /\ RatioOfTask(j) = 0
    /\ report.scores[1] # report.scores[2]

\* C9 (as the specification states it): with an empty bucket, the empty
\* bucket alone is flagged, and the scores of the other buckets and of the
\* whole list are still produced.
C9_EmptyBucketFlaggedOthersScored ==
    (pc = "scored" /\ N > 0 /\ \E b \in 1..3 : Labelled(LabelOrder[b]) = {}) =>
        /\ Len(report.scores) = 4
        /\ \A b \in 1..3 :
            Labelled(LabelOrder[b]) # {} =>
                report.scores[b] =
                    compute_ves(Bucket(exec_result, contents, LabelOrder[b])).ves
        /\ report.scores[4] = compute_ves(exec_result).ves

\* C10 (as the specification states it): once a user interrupt has reached
\* a task's evaluation the run is over: nothing more is submitted, taken by
\* a worker, handed back or recorded, and the main thread goes no further.
C10_InterruptEndsTheRun ==
    [][interrupts > 0 =>
        UNCHANGED <<pc, next_i, taskqueue, worker, outqueue, cache, exec_result>>]_vars

\* C11: when a flag is supplied and both full-row executions return, the rows
\* are not compared: with flag 1 the K timed iterations are made (2 * K timed
\* executions), with any other flag none is made and the ratio is 0, whatever
\* the rows of the two queries.
C11_SuppliedFlagIsTrusted ==
    (/\ eval_out.status = "done"
     /\ exec_acc_list # <<>>
     /\ EvalBothReturnRows)
        => /\ exec_acc_list[1] = 1 =>
                eval_out.out.timed_execs = 2 * iterate_num
           /\ exec_acc_list[1] # 1 =>
                /\ eval_out.out.timed_execs = 0
                /\ ~eval_out.out.exc
                /\ eval_out.out.time_ratio = 0
                /\ eval_out.res.value.time_ratio = 0

\* flagged correct with rows that differ: timed, and a ratio comes back
C11_Witness ==
    /\ eval_out.status = "done"
    /\ exec_acc_list = <<1>>
    /\ EvalBothReturnRows
    /\ sqls[1].pred.rows = <<1>>
    /\ sqls[1].gt.rows = <<1, 2>>
    /\ eval_out.out.timed_execs = 2 * iterate_num
    /\ eval_out.res.value.time_ratio > 0

\* the ratios of the K timed iterations of the pair under evaluation
EvalDiffList ==
    [it \in 1..iterate_num |->
        FDiv(sqls[1].gt.times[it + 1] * Scale, sqls[1].pred.times[it + 1] * Scale)]
EvalJudgedCorrect ==
    /\ EvalBothReturnRows
    /\ Correct(Job(0).exec_acc, sqls[1].pred.rows, sqls[1].gt.rows)

\* C12 (as the specification states it): when the filter removes every ratio
\* of a correct task, the evaluation does not fail with an error: no
\* exception leaves iterated_execute_sql.
C12_EmptyFilterDoesNotFail ==
    (/\ eval_out.status = "done"
     /\ EvalJudgedCorrect
     /\ clean_abnormal(EvalDiffList) = <<>>)
        => ~eval_out.out.exc

\* C13 (as the specification states it): a correct task whose every timed
\* iteration measures a ground-truth duration twice the predicted one, and
\* which does not time out, is answered with time_ratio 2, for every K.
C13_TwiceAsFastScoresTwo ==
    (/\ eval_out.status = "done"
     /\ EvalJudgedCorrect
     /\ ~eval_out.timed_out
     /\ \A it \in 1..iterate_num :
            sqls[1].gt.times[it + 1] = 2 * sqls[1].pred.times[it + 1])
        => eval_out.res.value.time_ratio = 2 * Scale

\* C14 (as amended): for the ratios [1,1,1,1,100] the mean is 20.8 and the
\* population standard deviation 39.6, so every ratio, 100 included, lies
\* strictly inside (mean - 3*std, mean + 3*std): the filter retains the
\* whole list and the mean of the retained ratios is the unfiltered 20.8.
SpecExampleRatios == <<1 * Scale, 1 * Scale, 1 * Scale, 1 * Scale, 100 * Scale>>
MeanOf(list) == SumSeq(list) \div Len(list)

C14_ExampleListIsRetainedWhole ==
    (eval_out.status = "filtered" /\ eval_out.diff_list = SpecExampleRatios) =>
        /\ eval_out.processed_diff_list = SpecExampleRatios
        /\ MeanOf(eval_out.processed_diff_list) = (208 * Scale) \div 10
        /\ MeanOf(eval_out.processed_diff_list) = MeanOf(SpecExampleRatios)

C14_Witness ==
    /\ eval_out.status = "filtered"
    /\ eval_out.diff_list = SpecExampleRatios
    /\ 100 * Scale \in Range(eval_out.processed_diff_list)

\* C14 (as the specification states it): the filter excludes 100 from
\* [1,1,1,1,100] and the mean of the retained ratios is 1.
C14_ExampleOutlierIsExcluded ==
    (eval_out.status = "filtered" /\ eval_out.diff_list = SpecExampleRatios) =>
        /\ 100 * Scale \notin Range(eval_out.processed_diff_list)
        /\ eval_out.processed_diff_list # <<>>
        /\ MeanOf(eval_out.processed_diff_list) = 1 * Scale

\* C15 (as the specification states it): at every moment of a run the
\* evaluations still executing queries, those of the busy workers and those
\* abandoned after a timeout with their query still running, are at most
\* num_cpus.
Evaluating == {w \in 1..num_cpus : worker[w] # Idle}

C15_OpenConnectionsWithinPoolSize ==
    pc \in {"submit", "join"} =>
        Cardinality(Evaluating) + Cardinality(abandoned) <= num_cpus

\* C16: no task is retried.  Every submitted task is, at every moment, in
\* exactly one place: waiting in the task queue, with one worker, handed back
\* and not yet recorded, recorded in exec_result, or lost with its worker;
\* a task not yet submitted is nowhere.  So each task is submitted once,
\* taken by one worker, and answered at most once, also when it failed or
\* timed out.
Count(S) == Cardinality(S)
PlacesOf(i) ==
    Count({k \in 1..Len(taskqueue) : taskqueue[k].idx = i})
    + Count({w \in 1..num_cpus : worker[w] # Idle /\ worker[w][1].idx = i})
    + Count({k \in 1..Len(outqueue) : outqueue[k].job = i})
    + Count(ResultsOf(i))
    + Count(lost \cap {i})

C16_NoTaskIsRetried ==
    pc \in {"submit", "join", "returned", "sorted", "scored"} =>
        \A i \in Tasks : PlacesOf(i) = (IF i < next_i THEN 1 ELSE 0)

\* a run of one worker is over; a task timed out, a task raised, and each
\* has its one result
C16_Witness ==
    /\ pc = "returned"
    /\ num_cpus = 1
    /\ N = NumTasks
    /\ \E i \in Tasks : JobTimedOut(Job(i)) /\ Count(ResultsOf(i)) = 1
    /\ \E i \in Tasks : JobErrored(Job(i)) /\ Count(ResultsOf(i)) = 1

\* C17: the timeout is one budget of meta_time_out * iterate_num for the
\* whole evaluation.  A task is answered as timed out only if the executions
\* of its evaluation take at least that long together; an evaluation that
\* stays within the budget is not timed out and is answered with its own
\* outcome, also when one of its queries alone takes longer than
\* meta_time_out.
EvalLoopTime ==
    SumSeq([it \in 1..iterate_num |->
                sqls[1].pred.times[it + 1] + sqls[1].gt.times[it + 1]])
\* the time the executions of the evaluation take together
EvalWholeTime ==
    IF sqls[1].pred.error THEN sqls[1].pred.times[1]
    ELSE sqls[1].pred.times[1] + sqls[1].gt.times[1]
         + (IF EvalJudgedCorrect THEN EvalLoopTime ELSE 0)
EvalOwnRatio ==
    IF EvalJudgedCorrect /\ clean_abnormal(EvalDiffList) # <<>>
    THEN MeanOf(clean_abnormal(EvalDiffList))
    ELSE 0

C17_TimeoutIsOneBudgetPerTask ==
    (eval_out.status = "done" /\ ~sqls[1].pred.hangs /\ ~sqls[1].gt.hangs) =>
        /\ eval_out.timed_out => EvalWholeTime >= meta_time_out * iterate_num
        /\ eval_out.timed_out => eval_out.res.value.time_ratio = 0
        /\ EvalWholeTime <= meta_time_out * iterate_num =>
            /\ ~eval_out.timed_out
            /\ eval_out.res.value.time_ratio = EvalOwnRatio

\* the first query alone runs longer than meta_time_out, the evaluation
\* stays within the budget and the task gets its ratio
C17_Witness ==
    /\ eval_out.status = "done"
    /\ sqls[1].pred.times[1] > meta_time_out
    /\ iterate_num > 1
    /\ EvalWholeTime <= meta_time_out * iterate_num
    /\ ~eval_out.timed_out
    /\ eval_out.res.value.time_ratio > 0

\* C18 (as the specification states it): the cause of a zero ratio shows in
\* what the run puts out.  For the task evaluated and any task that differs
\* from it in the predicted query only, if both are answered with ratio 0
\* for different causes (timed out, errored, incorrect result), then what
\* the run shows of the one differs from what it shows of the other.
ZeroCause(pair, exec_acc) ==
    LET out == iterated_execute_sql(pair.pred, pair.gt, iterate_num, exec_acc)
    IN IF TimedOut(out, iterate_num, meta_time_out) THEN "timeout"
       ELSE IF out.exc THEN "error"
       ELSE IF out.timed_execs = 0 THEN "incorrect"
       ELSE "none"

C18_ZeroCausesDistinguishable ==
    eval_out.status = "done" =>
        \A other \in TaskMix :
            LET this == sqls[1]
                that == [pred |-> other.pred, gt |-> this.gt]
                flag == Job(0).exec_acc
            IN (/\ ZeroCause(this, flag) # "none"
                /\ ZeroCause(that, flag) # "none"
                /\ ZeroCause(this, flag) # ZeroCause(that, flag))
                => TaskOutput(this, 0, iterate_num, meta_time_out, flag)
                    # TaskOutput(that, 0, iterate_num, meta_time_out, flag)

\* C19: an invocation of run_sqls_parallel that follows an earlier one holds
\* in exec_result, from its clear on, only results of tasks it has submitted
\* itself, each at most once, and it returns exactly one result per task of
\* its own list: nothing the earlier invocation left is among them.
C19_OnlyThisInvocationsResults ==
    /\ pc \in {"submit", "join", "returned"} =>
        /\ Len(exec_result) <= next_i
        /\ \A k \in 1..Len(exec_result) :
            /\ exec_result[k].sql_idx < next_i
            /\ exec_result[k] = SequentialRun[exec_result[k].sql_idx + 1]
        /\ Cardinality(Indices(exec_result)) = Len(exec_result)
    /\ pc = "returned" => Len(exec_result) = N

\* in RerunSpec every invocation follows an earlier one on a non-empty list;
\* this one has a single task and returns its single result
C19_Witness ==
    /\ pc = "returned"
    /\ N = 1
    /\ Len(exec_result) = 1
    /\ exec_result[1].sql_idx = 0
    /\ exec_result[1].time_ratio > 0

\* C20: an evaluation that neither fails nor times out has made exactly 2
\* full-row executions, with or without a flag, and 2 * K timed ones when the
\* task was judged correct, none otherwise.  The predicted query is run
\* first: when it raises nothing else is executed, when the ground truth
\* raises one full-row execution was made; either way a task flagged correct
\* is answered with ratio 0.
C20_TwoFullRowExecutionsFirst ==
    (eval_out.status = "done" /\ ~sqls[1].pred.hangs /\ ~sqls[1].gt.hangs) =>
        /\ (~eval_out.out.exc /\ ~eval_out.timed_out) =>
            /\ eval_out.out.full_execs = 2
            /\ eval_out.out.timed_execs =
                (IF EvalJudgedCorrect THEN 2 * iterate_num ELSE 0)
        /\ sqls[1].pred.error =>
            /\ eval_out.out.full_execs = 0
            /\ eval_out.out.timed_execs = 0
            /\ eval_out.res.value.time_ratio = 0
        /\ (~sqls[1].pred.error /\ sqls[1].gt.error) =>
            /\ eval_out.out.full_execs = 1
            /\ eval_out.out.timed_execs = 0
            /\ eval_out.res.value.time_ratio = 0

\* flagged correct, the ground-truth query raises in its full-row execution
C20_Witness ==
    /\ eval_out.status = "done"
    /\ exec_acc_list = <<1>>
    /\ ~sqls[1].pred.error /\ ~sqls[1].pred.hangs
    /\ sqls[1].gt.error
    /\ ~eval_out.timed_out
    /\ eval_out.out.full_execs = 1
    /\ eval_out.res.value.time_ratio = 0

====
